---- MODULE Spec2Model ----
(***************************************************************************)
(* Model of the Cook-Shop storefront: the JSON/in-memory cache layer of    *)
(* supabase_helpers.py in front of the Supabase tables, and the session    *)
(* cart and checkout handlers of app.py.                                   *)
(*                                                                         *)
(* Python values are encoded as follows.                                   *)
(*   - Optional values: None is <<>>, a present value x is <<x>>.          *)
(*   - A str is the sequence of its characters (one-character strings).    *)
(*   - A list of dicts is a sequence of records.                           *)
(*   - json.dump / json.load of the snapshots (dicts with str keys and     *)
(*     int, str, float or null values) gives back an equal list, so a      *)
(*     readable file holds the sequence that was dumped.                   *)
(*   - The description, image_url and created_at fields are copied through *)
(*     by every operation and read by none; they are left out of the rows. *)
(* Each handler is one atomic action: requests are served one at a time,   *)
(* except in SpecQty, where change_item_quantity is split at its two       *)
(* remote calls, and in SpecRace, where a create is split between the      *)
(* computation of its new id and its append.  Writes of the cache files    *)
(* are taken to succeed.                                                   *)
(***************************************************************************)
EXTENDS Integers, Sequences, FiniteSets, TLC

VARIABLES
    now,                      \* datetime.now().timestamp()
    env_ok,                   \* SUPABASE_URL and a key are set in the environment
    remote_up,                \* the remote store answers queries
    _products_cache,          \* None or the list of items
    _products_cache_time,
    _categories_cache,        \* None or the list of categories
    _categories_cache_time,
    products_file,            \* PRODUCTS_FILE on disk
    categories_file,          \* CATEGORIES_FILE on disk
    menu_items,               \* remote table menu_items, in insertion order
    menu_categories,          \* remote table menu_categories, in insertion order
    site_settings,            \* remote table site_settings
    session,                  \* the browser session: cart and admin flag
    cq,                       \* change_item_quantity calls in progress
    cr,                       \* create calls in progress, between read and write
    last,                     \* history: the most recent completed operation
    ghost                     \* history: deleted ids, created ids, load time,
                              \* the latest list_items answer

vars == <<now, env_ok, remote_up, _products_cache, _products_cache_time,
          _categories_cache, _categories_cache_time, products_file,
          categories_file, menu_items, menu_categories, site_settings,
          session, cq, cr, last, ghost>>

cacheVars == <<_products_cache, _products_cache_time, _categories_cache,
               _categories_cache_time>>
fileVars == <<products_file, categories_file>>
remoteVars == <<menu_items, menu_categories, site_settings>>

----------------------------------------------------------------------------
\* Program constants

CACHE_DURATION == 30

\* Bounds of the model

Epoch == 100          \* the clock when the process starts
ShortTick == 15       \* a step of time within the cache duration
LongTick == 31        \* a step of time beyond the cache duration
MaxElapsed == 62      \* the clock stops at Epoch + MaxElapsed
MaxLen == 2           \* longest items snapshot or remote table a create may extend
MaxCats == 3          \* longest categories snapshot a create may extend
MaxId == 3            \* largest id a create may assign
MaxCartQty == 3       \* largest quantity of one cart entry
MaxStock == 3         \* largest remote quantity in the inventory model
MaxCreates == 3       \* most create calls started in the model of two threads

----------------------------------------------------------------------------
\* Python values

None == <<>>
Some(x) == <<x>>

\* (x or "") for an optional str
OrEmpty(s) == IF s = None THEN <<>> ELSE s[1]

Max(S) == CHOOSE m \in S : \A x \in S : x <= m

RECURSIVE LStrip(_)
LStrip(s) == IF s # <<>> /\ Head(s) = " " THEN LStrip(Tail(s)) ELSE s

RECURSIVE RStrip(_)
RStrip(s) ==
    IF s # <<>> /\ s[Len(s)] = " " THEN RStrip(SubSeq(s, 1, Len(s) - 1)) ELSE s

\* Strip, but nothing is removed.
Strip_none(s) == s

\* str.strip()
Strip(s) == RStrip(LStrip(s))

LowerChar(c) ==
    CASE c = "A" -> "a"
      [] c = "S" -> "s"
      [] c = "T" -> "t"
      [] OTHER -> c

\* name.lower().replace(' ', '-')
Slug(s) ==
    [i \in 1..Len(s) |-> IF LowerChar(s[i]) = " " THEN "-" ELSE LowerChar(s[i])]

Reverse(s) == [i \in 1..Len(s) |-> s[Len(s) + 1 - i]]

Ids(rows) == {rows[i].id : i \in 1..Len(rows)}

\* An id as a handler receives it: an int, or the str of an int (a cart key).
PyInt(n) == [t |-> "int", v |-> n]
PyStr(n) == [t |-> "str", v |-> n]

\* item.get('id') == item_id, for a stored int id
IdEq(id, item_id) == item_id.t = "int" /\ item_id.v = id

\* int(item_id)
ToInt(item_id) == item_id.v

----------------------------------------------------------------------------
\* The cache files and the in-memory snapshots

DefaultCategories ==
    << [id |-> 1, name |-> <<"A", "l", "l">>, slug |-> <<"a", "l", "l">>] >>

DefaultProducts == <<>>

AbsentFile == [kind |-> "absent", data |-> <<>>]
CorruptFile == [kind |-> "corrupt", data |-> <<>>]
OkFile(rows) == [kind |-> "ok", data |-> rows]

Expired(cache, time) == cache = None \/ (now - time) > CACHE_DURATION

\* LoadOne, but an expired snapshot is kept when the file cannot be read.
LoadOne_keep(cache, time, file, default) ==
    IF cache = None \/ (now - time) > CACHE_DURATION
    THEN IF file.kind = "ok"
         THEN [cache |-> Some(file.data), time |-> now]
         ELSE [cache |-> IF cache = None THEN Some(default) ELSE cache,
               time |-> time]
    ELSE [cache |-> cache, time |-> time]

\* One half of _load_json_cache: the snapshot and its time after the call.
LoadOne(cache, time, file, default) ==
    IF Expired(cache, time)
    THEN IF file.kind = "ok"
         THEN [cache |-> Some(file.data), time |-> now]
         ELSE [cache |-> Some(default), time |-> time]
    ELSE [cache |-> cache, time |-> time]

LoadProducts ==
    LoadOne(_products_cache, _products_cache_time, products_file, DefaultProducts)

LoadCategories ==
    LoadOne(_categories_cache, _categories_cache_time, categories_file,
            DefaultCategories)

\* One half of _save_json_cache: the file after the call.
SaveOne(rows, file) == IF rows # <<>> THEN OkFile(rows) ELSE file

----------------------------------------------------------------------------
\* The remote store

\* supabase() returns a client and its queries succeed
Reachable == env_ok /\ remote_up

\* Raised, but the failure of supabase() is not caught.
Raised_uncaught(in_try) == ~env_ok

\* Whether a handler that reaches its call of supabase() raises: supabase()
\* raises RuntimeError when the environment is not set, and the error leaves
\* the handler unless the call stands inside a try block.
Raised(in_try) == ~in_try /\ ~env_ok

NextRemoteId(table) == Max(Ids(table) \cup {0}) + 1

RemoteDelete(table, id) == SelectSeq(table, LAMBDA r : r.id # id)

\* The rank of a character in code-point order.
CharRank(c) ==
    CASE c = " " -> 0
      [] c = "-" -> 1
      [] c = "A" -> 2
      [] c = "S" -> 3
      [] c = "T" -> 4
      [] c = "a" -> 5
      [] c = "d" -> 6
      [] c = "e" -> 7
      [] c = "l" -> 8
      [] c = "o" -> 9
      [] c = "s" -> 10
      [] c = "t" -> 11
      [] OTHER -> 12

RECURSIVE StrLess(_, _)
StrLess(a, b) ==
    IF a = <<>> THEN b # <<>>
    ELSE IF b = <<>> THEN FALSE
    ELSE IF Head(a) = Head(b) THEN StrLess(Tail(a), Tail(b))
    ELSE CharRank(Head(a)) < CharRank(Head(b))

RECURSIVE InsertByName(_, _)
InsertByName(sorted, row) ==
    IF sorted = <<>> THEN <<row>>
    ELSE IF StrLess(row.name, Head(sorted).name) THEN <<row>> \o sorted
    ELSE <<Head(sorted)>> \o InsertByName(Tail(sorted), row)

RECURSIVE OrderByName(_)
OrderByName(table) ==
    IF table = <<>> THEN <<>>
    ELSE InsertByName(OrderByName(SubSeq(table, 1, Len(table) - 1)),
                      table[Len(table)])

\* select(...).order("name") on menu_categories
SelectCategories == OrderByName(menu_categories)

\* select(...).order("created_at", desc=True) on menu_items
SelectItems == Reverse(menu_items)

----------------------------------------------------------------------------
\* History variables

Idle ==
    [op |-> "none", arg |-> 0, raised |-> FALSE, calls |-> 0, result |-> <<>>,
     pre |-> [reachable |-> FALSE, file |-> "absent", file_rows |-> FALSE,
              loaded |-> FALSE, mem_rows |-> FALSE, aged |-> FALSE]]

\* What held of one entity type when the operation was called.
PreOf(cache, file, aged) ==
    [reachable |-> Reachable,
     file |-> file.kind,
     file_rows |-> file.kind = "ok" /\ file.data # <<>>,
     loaded |-> cache # None,
     mem_rows |-> cache # None /\ cache # Some(<<>>),
     aged |-> aged]

\* aged: the items snapshot was loaded more than CACHE_DURATION ago and the
\* items file has not changed since.
PreItems ==
    PreOf(_products_cache, products_file,
          /\ _products_cache # None
          /\ (now - ghost.loaded_at) > CACHE_DURATION
          /\ ~ghost.touched)

PreCategories == PreOf(_categories_cache, categories_file, FALSE)

Done(op, arg, raised, calls, result, pre) ==
    [op |-> op, arg |-> arg, raised |-> raised, calls |-> calls,
     result |-> result, pre |-> pre]

\* The number of queries sent: none without a client, one that succeeds, or
\* `attempts` that fail.
Calls(attempts) == IF ~env_ok THEN 0 ELSE IF remote_up THEN 1 ELSE attempts

\* ghost after an operation that ran _load_json_cache, then possibly fetched
\* the items from the remote store, and left the items file as products_file'.
GhostLoad(g, fetched) ==
    LET reloaded == Expired(_products_cache, _products_cache_time) \/ fetched
    IN [g EXCEPT !.loaded_at = IF reloaded THEN now ELSE @,
                 !.touched = (IF reloaded THEN FALSE ELSE @)
                             \/ products_file' # products_file]

----------------------------------------------------------------------------
\* Categories

\* NewId, but from the number of entries instead of the largest id.
NewId_len(rows) == Len(rows) + 1

\* NewId, but from the first entry's id instead of the largest.
NewId_first(rows) == IF rows = <<>> THEN 1 ELSE rows[1].id + 1

\* max([c.get('id', 0) for c in rows] + [0]) + 1
NewId(rows) == Max(Ids(rows) \cup {0}) + 1

\* _save_json_cache(), given the two snapshots held when it is called
_save_json_cache(products, categories) ==
    /\ products_file' = SaveOne(products, products_file)
    /\ categories_file' = SaveOne(categories, categories_file)

\* What list_categories returns in the current state: the loaded snapshot
\* when it is not empty, else the rows of the remote store, else the default.
ListedCategories ==
    LET categories == LoadCategories.cache[1]
    IN IF categories # <<>> THEN categories
       ELSE IF Reachable THEN SelectCategories ELSE DefaultCategories

list_categories ==
    LET P == LoadProducts
        C == LoadCategories
        categories == C.cache[1]
        hit == categories # <<>>
        data == SelectCategories
    IN /\ _products_cache' = P.cache
       /\ _products_cache_time' = P.time
       /\ _categories_cache' = IF hit \/ ~Reachable THEN C.cache ELSE Some(data)
       /\ _categories_cache_time' = C.time
       /\ last' = Done("list_categories", 0, ~hit /\ Raised(TRUE),
                       IF hit THEN 0 ELSE Calls(1),
                       ListedCategories, PreCategories)
       /\ UNCHANGED <<now, env_ok, remote_up, fileVars, remoteVars, session, cq, cr>>
       /\ ghost' = GhostLoad(ghost, FALSE)

create_category(name) ==
    LET nm == Strip(OrEmpty(name))
        P == LoadProducts
        C == LoadCategories
        new_id == NewId(C.cache[1])
        new_category == [id |-> new_id, name |-> nm, slug |-> Slug(nm)]
        categories == Append(C.cache[1], new_category)
    IN IF nm = <<>>
       THEN /\ last' = Done("create_category", 0, TRUE, 0, <<>>, PreCategories)
            /\ UNCHANGED <<now, env_ok, remote_up, cacheVars, fileVars,
                           remoteVars, session, cq, cr, ghost>>
       ELSE /\ Len(C.cache[1]) < MaxCats
            /\ new_id <= MaxId
            /\ Reachable => Len(menu_categories) < MaxCats
            /\ _products_cache' = P.cache
            /\ _products_cache_time' = P.time
            /\ _categories_cache' = Some(categories)
            /\ _categories_cache_time' = C.time
            /\ _save_json_cache(P.cache[1], categories)
            /\ menu_categories' =
                   IF Reachable
                   THEN Append(menu_categories,
                               [id |-> NextRemoteId(menu_categories), name |-> nm])
                   ELSE menu_categories
            /\ last' = Done("create_category", new_id, FALSE, Calls(2), <<>>,
                            PreCategories)
            /\ ghost' = [GhostLoad(ghost, FALSE) EXCEPT
                            !.listed = None,
                            !.deleted_categories = @ \ {new_id},
                            !.created_categories =
                                IF ghost.log THEN Append(@, new_id) ELSE @]
            /\ UNCHANGED <<now, env_ok, remote_up, menu_items, site_settings,
                           session, cq, cr>>

\* The index of the first entry with the given id, which is present.
FirstIndex(rows, id) ==
    CHOOSE k \in 1..Len(rows) :
        /\ rows[k].id = id
        /\ \A j \in 1..(k - 1) : rows[j].id # id

update_category(category_id, name) ==
    LET nm == Strip(OrEmpty(name))
        P == LoadProducts
        C == LoadCategories
        found == category_id \in Ids(C.cache[1])
        \* name.lower() on None raises after cat['name'] has been assigned
        fails == found /\ name = None
        at == FirstIndex(C.cache[1], category_id)
        categories ==
            IF ~found THEN C.cache[1]
            ELSE IF fails THEN [C.cache[1] EXCEPT ![at].name = nm]
            ELSE [C.cache[1] EXCEPT
                     ![at] = [id |-> @.id, name |-> nm, slug |-> Slug(name[1])]]
    IN /\ _products_cache' = P.cache
       /\ _products_cache_time' = P.time
       /\ _categories_cache' = Some(categories)
       /\ _categories_cache_time' = C.time
       /\ IF fails
          THEN UNCHANGED <<fileVars, menu_categories>>
          ELSE /\ _save_json_cache(P.cache[1], categories)
               /\ menu_categories' =
                      IF Reachable
                      THEN [i \in 1..Len(menu_categories) |->
                               IF menu_categories[i].id = category_id
                               THEN [menu_categories[i] EXCEPT !.name = nm]
                               ELSE menu_categories[i]]
                      ELSE menu_categories
       /\ last' = Done("update_category", category_id, fails,
                       IF fails THEN 0 ELSE Calls(1), <<>>, PreCategories)
       /\ ghost' = [GhostLoad(ghost, FALSE) EXCEPT !.listed = None]
       /\ UNCHANGED <<now, env_ok, remote_up, menu_items, site_settings,
                      session, cq, cr>>

delete_category(category_id) ==
    LET P == LoadProducts
        C == LoadCategories
        categories == SelectSeq(C.cache[1], LAMBDA c : c.id # category_id)
    IN /\ _products_cache' = P.cache
       /\ _products_cache_time' = P.time
       /\ _categories_cache' = Some(categories)
       /\ _categories_cache_time' = C.time
       /\ _save_json_cache(P.cache[1], categories)
       /\ menu_categories' =
              IF Reachable THEN RemoteDelete(menu_categories, category_id)
              ELSE menu_categories
       /\ last' = Done("delete_category", category_id, FALSE, Calls(1), <<>>,
                       PreCategories)
       /\ ghost' = [GhostLoad(ghost, FALSE) EXCEPT
                       !.listed = None,
                       !.deleted_categories = @ \cup {category_id}]
       /\ UNCHANGED <<now, env_ok, remote_up, menu_items, site_settings,
                      session, cq, cr>>

----------------------------------------------------------------------------
\* Items

\* int(quantity) if quantity not in (None, "") else 0
QuantityOrZero(quantity) == IF quantity = None THEN 0 ELSE quantity[1]

\* What list_items returns in the current state: the loaded snapshot when it
\* is not empty, else the rows of the remote store, else the empty list.
ListedItems ==
    LET products == LoadProducts.cache[1]
    IN IF products # <<>> THEN products
       ELSE IF Reachable THEN SelectItems ELSE <<>>

list_items ==
    LET P == LoadProducts
        C == LoadCategories
        products == P.cache[1]
        hit == products # <<>>
        data == SelectItems
    IN /\ _products_cache' = IF hit \/ ~Reachable THEN P.cache ELSE Some(data)
       /\ _products_cache_time' = P.time
       /\ _categories_cache' = C.cache
       /\ _categories_cache_time' = C.time
       /\ last' = Done("list_items", 0, ~hit /\ Raised(TRUE),
                       IF hit THEN 0 ELSE Calls(2),
                       ListedItems, PreItems)
       /\ UNCHANGED <<now, env_ok, remote_up, fileVars, remoteVars, session, cq, cr>>
       /\ ghost' = [GhostLoad(ghost, ~hit /\ Reachable) EXCEPT
                       !.listed = IF ghost.log
                                  THEN Some([at |-> now, result |-> ListedItems])
                                  ELSE @]

\* select(...).eq("category_id", category_id).order("name") on menu_items
SelectItemsForCategory(category_id) ==
    OrderByName(SelectSeq(menu_items, LAMBDA r : r.category_id = category_id))

list_items_for_category(category_id) ==
    LET P == LoadProducts
        C == LoadCategories
        products == P.cache[1]
        hit == products # <<>>
    IN /\ _products_cache' = P.cache
       /\ _products_cache_time' = P.time
       /\ _categories_cache' = C.cache
       /\ _categories_cache_time' = C.time
       /\ last' = Done("list_items_for_category", category_id,
                       ~hit /\ Raised(TRUE), IF hit THEN 0 ELSE Calls(2),
                       IF hit
                       THEN SelectSeq(products,
                                      LAMBDA item : item.category_id = category_id)
                       ELSE IF Reachable THEN SelectItemsForCategory(category_id)
                       ELSE <<>>,
                       PreItems)
       /\ UNCHANGED <<now, env_ok, remote_up, fileVars, remoteVars, session, cq, cr>>
       /\ ghost' = GhostLoad(ghost, FALSE)

create_item(category_id, name, price, quantity) ==
    LET nm == Strip(OrEmpty(name))
        P == LoadProducts
        C == LoadCategories
        new_id == NewId(P.cache[1])
        new_item == [id |-> new_id, category_id |-> category_id, name |-> nm,
                     price |-> price, quantity |-> QuantityOrZero(quantity)]
        products == Append(P.cache[1], new_item)
    IN IF nm = <<>>
       THEN /\ last' = Done("create_item", 0, TRUE, 0, <<>>, PreItems)
            /\ UNCHANGED <<now, env_ok, remote_up, cacheVars, fileVars,
                           remoteVars, session, cq, cr, ghost>>
       ELSE /\ Len(P.cache[1]) < MaxLen
            /\ new_id <= MaxId
            /\ Reachable => Len(menu_items) < MaxLen
            /\ _products_cache' = Some(products)
            /\ _products_cache_time' = P.time
            /\ _categories_cache' = C.cache
            /\ _categories_cache_time' = C.time
            /\ _save_json_cache(products, C.cache[1])
            /\ menu_items' =
                   IF Reachable
                   THEN Append(menu_items,
                               [new_item EXCEPT !.id = NextRemoteId(menu_items)])
                   ELSE menu_items
            /\ last' = Done("create_item", new_id, FALSE, Calls(1), <<>>, PreItems)
            /\ ghost' = [GhostLoad(ghost, FALSE) EXCEPT
                            !.listed = None,
                            !.deleted_items = @ \ {new_id},
                            !.created_items =
                                IF ghost.log THEN Append(@, new_id) ELSE @]
            /\ UNCHANGED <<now, env_ok, remote_up, menu_categories,
                           site_settings, session, cq, cr>>

\* The first stored item whose id equals item_id, or None.
FindItem(rows, item_id) ==
    IF \E i \in 1..Len(rows) : IdEq(rows[i].id, item_id)
    THEN Some(rows[CHOOSE k \in 1..Len(rows) :
                       /\ IdEq(rows[k].id, item_id)
                       /\ \A j \in 1..(k - 1) : ~IdEq(rows[j].id, item_id)])
    ELSE None

\* select(...).eq("id", int(item_id)).limit(1) on menu_items
SelectItem(id) == SelectSeq(menu_items, LAMBDA r : r.id = id)

\* get_item(item_id) as a function of the state: what it returns (None or the
\* item) and the queries it sends.
GetItem(item_id) ==
    LET found == FindItem(LoadProducts.cache[1], item_id)
        rows == SelectItem(ToInt(item_id))
    IN IF found # None THEN [item |-> found, calls |-> 0, raised |-> FALSE]
       ELSE [item |-> IF Reachable /\ rows # <<>> THEN Some(rows[1]) ELSE None,
             calls |-> Calls(2), raised |-> Raised(TRUE)]

get_item(item_id) ==
    LET P == LoadProducts
        C == LoadCategories
        got == GetItem(item_id)
    IN /\ _products_cache' = P.cache
       /\ _products_cache_time' = P.time
       /\ _categories_cache' = C.cache
       /\ _categories_cache_time' = C.time
       /\ last' = Done("get_item", ToInt(item_id), got.raised, got.calls,
                       got.item, PreItems)
       /\ UNCHANGED <<now, env_ok, remote_up, fileVars, remoteVars, session, cq, cr>>
       /\ ghost' = GhostLoad(ghost, FALSE)

update_item(item_id, name, price, quantity) ==
    LET nm == Strip(OrEmpty(name))
        P == LoadProducts
        C == LoadCategories
        at == FirstIndex(P.cache[1], item_id)
        products ==
            IF item_id \in Ids(P.cache[1])
            THEN [P.cache[1] EXCEPT
                     ![at].name = nm,
                     ![at].price = price,
                     ![at].quantity = IF quantity = None THEN @
                                     ELSE quantity[1]]
            ELSE P.cache[1]
    IN /\ _products_cache' = Some(products)
       /\ _products_cache_time' = P.time
       /\ _categories_cache' = C.cache
       /\ _categories_cache_time' = C.time
       /\ _save_json_cache(products, C.cache[1])
       /\ menu_items' =
              IF Reachable
              THEN [i \in 1..Len(menu_items) |->
                       IF menu_items[i].id = item_id
                       THEN [menu_items[i] EXCEPT
                                !.name = nm,
                                !.price = price,
                                !.quantity = IF quantity = None THEN @
                                             ELSE quantity[1]]
                       ELSE menu_items[i]]
              ELSE menu_items
       /\ last' = Done("update_item", item_id, FALSE, Calls(1), <<>>, PreItems)
       /\ ghost' = [GhostLoad(ghost, FALSE) EXCEPT !.listed = None]
       /\ UNCHANGED <<now, env_ok, remote_up, menu_categories, site_settings,
                      session, cq, cr>>

delete_item(item_id) ==
    LET P == LoadProducts
        C == LoadCategories
        products == SelectSeq(P.cache[1], LAMBDA p : p.id # item_id)
    IN /\ _products_cache' = Some(products)
       /\ _products_cache_time' = P.time
       /\ _categories_cache' = C.cache
       /\ _categories_cache_time' = C.time
       /\ _save_json_cache(products, C.cache[1])
       /\ menu_items' =
              IF Reachable THEN RemoteDelete(menu_items, item_id) ELSE menu_items
       /\ last' = Done("delete_item", item_id, FALSE, Calls(1), <<>>, PreItems)
       /\ ghost' = [GhostLoad(ghost, FALSE) EXCEPT
                       !.listed = None,
                       !.deleted_items = @ \cup {item_id}]
       /\ UNCHANGED <<now, env_ok, remote_up, menu_categories, site_settings,
                      session, cq, cr>>

----------------------------------------------------------------------------
\* Creates served by two threads of one process.  A create is split where
\* another thread may run: after _load_json_cache and the computation of
\* new_id, and before the append, the save and the remote insert.  The local
\* variable of a create (products or categories) refers to a list object:
\* the one the module global refers to (shared), or one the global no longer
\* refers to, whose rows the create's record then holds.

NoCreate ==
    [pc |-> "idle", kind |-> "none", name |-> <<>>, seen |-> {}, new_id |-> 0,
     shared |-> FALSE, rows |-> <<>>, assigned |-> None, raised |-> FALSE]

SnapshotOf(kind) ==
    IF kind = "item" THEN _products_cache ELSE _categories_cache

\* The creates of the other threads after the global of `kind` was bound to
\* another list object: those that held the old object keep its rows.
Rebound(p, kind, rebinds) ==
    [q \in DOMAIN cr |->
        IF q # p /\ cr[q].pc = "write" /\ cr[q].kind = kind /\ cr[q].shared
               /\ rebinds
        THEN [cr[q] EXCEPT !.shared = FALSE, !.rows = SnapshotOf(kind)[1]]
        ELSE cr[q]]

\* create_item or create_category up to new_id: the name is checked, the
\* snapshots are loaded and the largest id is read.
cr_load(p, kind, name) ==
    LET nm == Strip(OrEmpty(name))
        P == LoadProducts
        C == LoadCategories
        rows == IF kind = "item" THEN P.cache[1] ELSE C.cache[1]
        held == [q \in DOMAIN cr |->
                    Rebound(p, cr[q].kind,
                            IF cr[q].kind = "item"
                            THEN Expired(_products_cache, _products_cache_time)
                            ELSE Expired(_categories_cache,
                                         _categories_cache_time))[q]]
        started == Len(ghost.created_items) + Len(ghost.created_categories)
                       + Cardinality({q \in DOMAIN cr : cr[q].pc = "write"})
    IN /\ cr[p].pc = "idle"
       /\ started < MaxCreates
       /\ UNCHANGED <<now, env_ok, remote_up, fileVars, remoteVars, session, cq,
                      last>>
       /\ IF nm = <<>>
          THEN /\ cr' = [cr EXCEPT ![p] = [NoCreate EXCEPT !.raised = TRUE]]
               /\ UNCHANGED <<cacheVars, ghost>>
          ELSE /\ Len(rows) < (IF kind = "item" THEN MaxLen ELSE MaxCats)
               /\ NewId(rows) <= MaxId
               /\ _products_cache' = P.cache
               /\ _products_cache_time' = P.time
               /\ _categories_cache' = C.cache
               /\ _categories_cache_time' = C.time
               /\ cr' = [held EXCEPT ![p] =
                            [NoCreate EXCEPT !.pc = "write", !.kind = kind,
                                             !.name = nm, !.seen = Ids(rows),
                                             !.new_id = NewId(rows),
                                             !.shared = TRUE]]
               /\ ghost' = GhostLoad(ghost, FALSE)

\* The rest of the create: the new entry is appended to the list the create
\* holds, the global is bound to that list, both snapshots are saved and the
\* entry is inserted in the remote table.
cr_store(p) ==
    LET kind == cr[p].kind
        mine == IF cr[p].shared THEN SnapshotOf(kind)[1] ELSE cr[p].rows
        new_row ==
            IF kind = "item"
            THEN [id |-> cr[p].new_id, category_id |-> 1, name |-> cr[p].name,
                  price |-> None, quantity |-> 0]
            ELSE [id |-> cr[p].new_id, name |-> cr[p].name,
                  slug |-> Slug(cr[p].name)]
        rows == Append(mine, new_row)
        products == IF kind = "item" THEN rows ELSE _products_cache[1]
        categories == IF kind = "item" THEN _categories_cache[1] ELSE rows
    IN /\ cr[p].pc = "write"
       /\ Len(mine) < (IF kind = "item" THEN MaxLen ELSE MaxCats)
       /\ Reachable => Len(IF kind = "item" THEN menu_items ELSE menu_categories)
                           < (IF kind = "item" THEN MaxLen ELSE MaxCats)
       /\ _products_cache' = Some(products)
       /\ _categories_cache' = Some(categories)
       /\ UNCHANGED <<_products_cache_time, _categories_cache_time>>
       /\ _save_json_cache(products, categories)
       /\ menu_items' =
              IF Reachable /\ kind = "item"
              THEN Append(menu_items,
                          [new_row EXCEPT !.id = NextRemoteId(menu_items)])
              ELSE menu_items
       /\ menu_categories' =
              IF Reachable /\ kind = "category"
              THEN Append(menu_categories,
                          [id |-> NextRemoteId(menu_categories),
                           name |-> cr[p].name])
              ELSE menu_categories
       /\ cr' = [Rebound(p, kind, ~cr[p].shared) EXCEPT ![p] =
                    [NoCreate EXCEPT !.kind = kind, !.seen = cr[p].seen,
                                     !.assigned = Some(cr[p].new_id)]]
       /\ ghost' = [ghost EXCEPT
                       !.listed = None,
                       !.touched = @ \/ products_file' # products_file,
                       !.created_items =
                           IF kind = "item" THEN Append(@, cr[p].new_id) ELSE @,
                       !.created_categories =
                           IF kind = "category" THEN Append(@, cr[p].new_id)
                           ELSE @]
       /\ UNCHANGED <<now, env_ok, remote_up, site_settings, session, cq, last>>

----------------------------------------------------------------------------
\* Inventory

Max0(n) == IF n > 0 THEN n ELSE 0

\* update({"quantity": quantity}).eq("id", id) on menu_items
RemoteSetQuantity(table, id, quantity) ==
    [i \in 1..Len(table) |->
        IF table[i].id = id THEN [table[i] EXCEPT !.quantity = quantity]
        ELSE table[i]]

\* NewQuantity without the floor at 0.
NewQuantity_nofloor(current, delta) == current + delta

\* The value change_item_quantity writes, given the quantity it read.
NewQuantity(current, delta) == Max0(current + delta)

NoCall == [pc |-> "idle", item_id |-> 0, delta |-> 0, current |-> 0,
           wrote |-> None, raised |-> FALSE]

\* change_item_quantity(item_id, delta), up to the client: supabase() raises
\* when the environment is not configured.
cq_call(p, item_id, delta) ==
    /\ cq[p].pc = "idle"
    /\ cq' = [cq EXCEPT ![p] =
                 [pc |-> IF env_ok THEN "select" ELSE "idle",
                  item_id |-> item_id, delta |-> delta, current |-> 0,
                  wrote |-> None, raised |-> Raised(FALSE)]]
    /\ UNCHANGED <<now, env_ok, remote_up, cacheVars, fileVars, remoteVars,
                   session, cr, last, ghost>>

\* select("quantity").eq("id", item_id).limit(1): a failure is caught and
\* ends the call, and so does an empty answer.
cq_select(p) ==
    /\ cq[p].pc = "select"
    /\ LET rows == SelectItem(cq[p].item_id)
       IN cq' = [cq EXCEPT ![p] =
                    IF remote_up /\ rows # <<>>
                    THEN [@ EXCEPT !.pc = "update",
                                   !.current = rows[1].quantity]
                    ELSE [@ EXCEPT !.pc = "idle"]]
    /\ UNCHANGED <<now, env_ok, remote_up, cacheVars, fileVars, remoteVars,
                   session, cr, last, ghost>>

\* update({"quantity": max(0, current + delta)}).eq("id", item_id)
cq_update(p) ==
    /\ cq[p].pc = "update"
    /\ LET quantity == NewQuantity(cq[p].current, cq[p].delta)
       IN /\ quantity <= MaxStock
          /\ menu_items' =
                 IF remote_up
                 THEN RemoteSetQuantity(menu_items, cq[p].item_id, quantity)
                 ELSE menu_items
          /\ cq' = [cq EXCEPT ![p] =
                       [@ EXCEPT !.pc = "idle",
                                 !.wrote = IF remote_up THEN Some(quantity)
                                           ELSE None]]
    /\ UNCHANGED <<now, env_ok, remote_up, cacheVars, fileVars,
                   menu_categories, site_settings, session, cr, last, ghost>>

----------------------------------------------------------------------------
\* Site settings

\* get_site_setting(key): None unless the remote store returns a value
get_site_setting(key) == IF Reachable THEN site_settings[key] ELSE None

\* A call of get_site_setting(key): both of its remote steps stand in try
\* blocks that return None.
call_get_site_setting(key) ==
    /\ last' = Done("get_site_setting", 0, Raised(TRUE), Calls(1),
                    get_site_setting(key), PreItems)
    /\ UNCHANGED <<now, env_ok, remote_up, cacheVars, fileVars, remoteVars,
                   session, cq, cr, ghost>>

\* _site()["whatsapp_phone"]
SiteWhatsappPhone == Strip(OrEmpty(get_site_setting("whatsapp_phone")))

----------------------------------------------------------------------------
\* The session cart.  A cart key is the str of an item id; the cart is a
\* function whose domain holds the ids whose str is a key.

EmptyCart == [k \in {} |-> 0]

\* _cart()
Cart == session.cart

CartGet(cart, k) == IF k \in DOMAIN cart THEN cart[k] ELSE 0

\* Max1, but the posted quantity is taken as it is.
Max1_raw(qty) == qty

\* max(1, qty)
Max1(qty) == IF qty > 1 THEN qty ELSE 1

\* CartEntry, but the entry is overwritten instead of added to.
CartEntry_replace(cart, item_id, qty) == Max1(qty)

\* cart.get(str(item_id), 0) + max(1, qty)
CartEntry(cart, item_id, qty) == CartGet(cart, item_id) + Max1(qty)

\* What held when a cart handler was called: the cart, the quantity posted,
\* and the cart handler that completed just before, if any.
PreCart(cart, qty) ==
    [cart |-> cart, qty |-> qty,
     before |-> IF last.op \in {"cart_add", "cart_remove"}
                THEN [op |-> last.op, arg |-> last.arg, qty |-> last.pre.qty,
                      cart |-> last.pre.cart]
                ELSE [op |-> "none", arg |-> 0, qty |-> 0, cart |-> EmptyCart]]

cart_add(item_id, qty) ==
    LET cart == Cart
        quantity == CartEntry(cart, item_id, qty)
    IN /\ quantity <= MaxCartQty
       /\ session' = [session EXCEPT !.cart =
                         [k \in DOMAIN cart \cup {item_id} |->
                             IF k = item_id THEN quantity ELSE cart[k]]]
       /\ last' = Done("cart_add", item_id, FALSE, 0, <<>>, PreCart(cart, qty))
       /\ UNCHANGED <<now, env_ok, remote_up, cacheVars, fileVars, remoteVars,
                      cq, cr, ghost>>

cart_remove(item_id) ==
    LET cart == Cart
    IN /\ session' = [session EXCEPT !.cart =
                         [k \in DOMAIN cart \ {item_id} |-> cart[k]]]
       /\ last' = Done("cart_remove", item_id, FALSE, 0, <<>>, PreCart(cart, 0))
       /\ UNCHANGED <<now, env_ok, remote_up, cacheVars, fileVars, remoteVars,
                      cq, cr, ghost>>

\* float(itm.get("price") or 0)
PriceOf(itm) == IF itm.price = None THEN 0 ELSE itm.price[1]

\* The message lines of the cart entries with keys in `keys`, listed by
\* ascending key; an entry whose item get_item does not find has no line.
RECURSIVE Lines(_, _)
Lines(cart, keys) ==
    IF keys = {} THEN <<>>
    ELSE LET k == CHOOSE x \in keys : \A y \in keys : x <= y
             itm == GetItem(PyStr(k)).item
         IN (IF itm = None THEN <<>>
             ELSE << [name |-> itm[1].name, qty |-> cart[k],
                      line_total |-> PriceOf(itm[1]) * cart[k]] >>)
            \o Lines(cart, keys \ {k})

RECURSIVE Sum(_)
Sum(lines) ==
    IF lines = <<>> THEN 0 ELSE Head(lines).line_total + Sum(Tail(lines))

\* CartAfterCheckout, but the cart is kept when an item was not found.
CartAfterCheckout_found(cart, whatsapp_phone, lines) ==
    IF whatsapp_phone # <<>> /\ Len(lines) = Cardinality(DOMAIN cart)
    THEN EmptyCart ELSE cart

\* The session cart when cart_checkout returns.
CartAfterCheckout(cart, whatsapp_phone, lines) ==
    IF whatsapp_phone # <<>> THEN EmptyCart ELSE cart

cart_checkout ==
    LET whatsapp_phone == SiteWhatsappPhone
        cart == Cart
        P == LoadProducts
        C == LoadCategories
        lines == Lines(cart, DOMAIN cart)
        pre == [cart |-> cart, whatsapp_phone |-> whatsapp_phone,
                reachable |-> Reachable, stock |-> menu_items,
                products |-> P.cache[1]]
    IN IF DOMAIN cart = {}
       THEN /\ last' = Done("cart_checkout", 0, FALSE, 0, <<>>, pre)
            /\ UNCHANGED <<now, env_ok, remote_up, cacheVars, fileVars,
                           remoteVars, session, cq, cr, ghost>>
       ELSE /\ _products_cache' = P.cache
            /\ _products_cache_time' = P.time
            /\ _categories_cache' = C.cache
            /\ _categories_cache_time' = C.time
            /\ session' = [session EXCEPT !.cart =
                              CartAfterCheckout(cart, whatsapp_phone, lines)]
            /\ last' = Done("cart_checkout", Sum(lines), FALSE, 0, lines, pre)
            /\ UNCHANGED <<now, env_ok, remote_up, fileVars, remoteVars, cq, cr>>
            /\ ghost' = GhostLoad(ghost, FALSE)

----------------------------------------------------------------------------
\* The admin routes.  A form field is a str; a page or a redirect is recorded
\* in last.result as the name of the endpoint it shows.

\* os.environ.get("ADMIN_PASSWORD", "admin")
ADMIN_PASSWORD == "admin"

\* is_logged_in, but true of every session.
is_logged_in_open == TRUE

\* session.get("admin") is True
is_logged_in == session.admin = TRUE

\* return redirect(url_for("admin_login")), the answer to a session that is
\* not logged in
RedirectToLogin(route) ==
    /\ last' = Done(route, 0, FALSE, 0, <<"admin_login">>, PreItems)
    /\ UNCHANGED <<now, env_ok, remote_up, cacheVars, fileVars, remoteVars,
                   session, cq, cr, ghost>>

\* A page rendered, or a redirect to the route's own page, by a request that
\* writes nothing.
Rendered(route) ==
    /\ last' = Done(route, 0, FALSE, 0, <<route>>, PreItems)
    /\ UNCHANGED <<now, env_ok, remote_up, cacheVars, fileVars, remoteVars,
                   session, cq, cr, ghost>>

\* re.fullmatch(r"\+?[0-9]{8,15}", s)
Digits == {"0", "1", "2", "3", "4", "5", "6", "7", "8", "9"}

ValidPhone(s) ==
    LET d == IF s # <<>> /\ Head(s) = "+" THEN Tail(s) ELSE s
    IN /\ Len(d) >= 8
       /\ Len(d) <= 15
       /\ \A i \in 1..Len(d) : d[i] \in Digits

\* The table site_settings after set_site_setting(key, value) reached it.
set_site_setting(settings, key, value) ==
    [settings EXCEPT ![key] = Some(value)]

\* _public_url(bucket, key) of an uploaded logo
LogoUrl == <<"l", "o", "g", "o">>

admin_login(method, password) ==
    LET ok == method = "POST" /\ password = ADMIN_PASSWORD
    IN /\ session' = IF ok THEN [session EXCEPT !.admin = TRUE] ELSE session
       /\ last' = Done("admin_login", 0, FALSE, 0,
                       <<IF ok THEN "admin_home" ELSE "admin_login">>, PreItems)
       /\ UNCHANGED <<now, env_ok, remote_up, cacheVars, fileVars, remoteVars,
                      cq, cr, ghost>>

\* session.clear(): no cart, no admin flag
admin_logout ==
    /\ session' = [cart |-> EmptyCart, admin |-> FALSE]
    /\ last' = Done("admin_logout", 0, FALSE, 0, <<"index">>, PreItems)
    /\ UNCHANGED <<now, env_ok, remote_up, cacheVars, fileVars, remoteVars,
                   cq, cr, ghost>>

admin_home ==
    IF ~is_logged_in THEN RedirectToLogin("admin_home")
    ELSE Rendered("admin_home")

\* A GET, or a POST of the settings form without a logo file.  Each
\* set_site_setting raises when the remote store does not take the row, and
\* the route does not catch it: the first of them (dark_mode at the latest)
\* ends the request.
admin_settings(method, brand_name, dark_mode, whatsapp_phone) ==
    IF ~is_logged_in THEN RedirectToLogin("admin_settings")
    ELSE IF method # "POST" THEN Rendered("admin_settings")
    ELSE LET bn == Strip(brand_name)
             wp == Strip(whatsapp_phone)
             saves_phone == wp # <<>> /\ ValidPhone(wp)
             s1 == IF bn # <<>>
                   THEN set_site_setting(site_settings, "brand_name", bn)
                   ELSE site_settings
             s2 == set_site_setting(s1, "dark_mode",
                                    IF dark_mode THEN <<"1">> ELSE <<"0">>)
             s3 == IF saves_phone
                   THEN set_site_setting(s2, "whatsapp_phone", wp)
                   ELSE s2
             sets == (IF bn # <<>> THEN 1 ELSE 0) + 1
                         + (IF saves_phone THEN 1 ELSE 0)
         IN /\ site_settings' = IF Reachable THEN s3 ELSE site_settings
            /\ last' = Done("admin_settings", 0, ~Reachable,
                            IF ~env_ok THEN 0 ELSE IF remote_up THEN sets ELSE 2,
                            <<"admin_settings">>, PreItems)
            /\ UNCHANGED <<now, env_ok, remote_up, cacheVars, fileVars,
                           menu_items, menu_categories, session, cq, cr, ghost>>

\* A GET, or a POST with or without a logo file.  The upload and the
\* set_site_setting that follows it stand in one try block.
admin_branding(method, has_file) ==
    IF ~is_logged_in THEN RedirectToLogin("admin_branding")
    ELSE IF method # "POST" \/ ~has_file THEN Rendered("admin_branding")
    ELSE /\ site_settings' =
                IF Reachable
                THEN set_site_setting(site_settings, "logo_url", LogoUrl)
                ELSE site_settings
         /\ last' = Done("admin_branding", 0, FALSE, Calls(4),
                         <<"admin_branding">>, PreItems)
         /\ UNCHANGED <<now, env_ok, remote_up, cacheVars, fileVars,
                        menu_items, menu_categories, session, cq, cr, ghost>>

\* A POST calls create_category(name) and catches what it raises; a GET
\* calls list_categories().
admin_categories(method, name) ==
    IF ~is_logged_in THEN RedirectToLogin("admin_categories")
    ELSE IF method = "POST" THEN create_category(name)
    ELSE list_categories

\* Every request of a logged-in session begins with list_categories(); the
\* case modelled is the one in which the loaded categories snapshot is not
\* empty, where that call does nothing but the load that create_item or
\* list_items does again.  A POST (category_id "1", no price, no image) calls
\* create_item and catches what it raises; a GET calls list_items().
admin_items(method, name) ==
    IF ~is_logged_in THEN RedirectToLogin("admin_items")
    ELSE /\ LoadCategories.cache[1] # <<>>
         /\ IF method = "POST" THEN create_item(1, name, None, None)
            ELSE list_items

----------------------------------------------------------------------------
\* The environment: the clock and the availability of the remote store

Tick(d) ==
    /\ now + d <= Epoch + MaxElapsed
    /\ now' = now + d
    /\ last' = Idle
    /\ UNCHANGED <<env_ok, remote_up, cacheVars, fileVars, remoteVars, session,
                   cq, cr, ghost>>

SetRemote(up) ==
    /\ remote_up # up
    /\ remote_up' = up
    /\ last' = Idle
    /\ UNCHANGED <<now, env_ok, cacheVars, fileVars, remoteVars, session, cq, cr,
                   ghost>>

----------------------------------------------------------------------------
\* Initial states

Tea == <<"T", "e", "a">>
Soda == <<"S", "o", "d", "a">>
Blank == <<" ">>
Phone == <<"+", "5", "9", "2", "6", "0", "0", "0", "0", "0", "0">>

Item1 == [id |-> 1, category_id |-> 1, name |-> Soda, price |-> Some(2),
          quantity |-> 2]
Item2 == [id |-> 2, category_id |-> 1, name |-> Tea, price |-> None,
          quantity |-> 0]
Category2 == [id |-> 2, name |-> Soda, slug |-> Slug(Soda)]
RemoteCategory1 == [id |-> 1, name |-> Tea]

\* The names a form can post that hold no character but blanks: a missing
\* field, the empty string, a blank.
BlankNames == {None, Some(<<>>), Some(Blank)}

NoGhost ==
    [deleted_items |-> {}, deleted_categories |-> {}, log |-> FALSE,
     created_items |-> <<>>, created_categories |-> <<>>,
     loaded_at |-> 0, touched |-> FALSE, listed |-> None]

NoSession == [cart |-> EmptyCart, admin |-> FALSE]

\* A process that has just started: nothing loaded, an empty session.
InitProcess ==
    /\ now = Epoch
    /\ _products_cache = None
    /\ _products_cache_time = 0
    /\ _categories_cache = None
    /\ _categories_cache_time = 0
    /\ session = NoSession
    /\ cq = <<>>
    /\ cr = <<>>
    /\ last = Idle

----------------------------------------------------------------------------
\* Spec: the cache layer, with every read and the writes of items

Init ==
    /\ InitProcess
    /\ env_ok \in BOOLEAN
    /\ remote_up = TRUE
    /\ products_file \in {AbsentFile, CorruptFile, OkFile(<<Item1>>)}
    /\ categories_file \in {AbsentFile, OkFile(DefaultCategories \o <<Category2>>)}
    /\ menu_items = <<Item1>>
    /\ menu_categories = <<RemoteCategory1>>
    /\ site_settings = [whatsapp_phone |-> None]
    /\ ghost = NoGhost

Next ==
    \/ Tick(LongTick)
    \/ \E up \in BOOLEAN : SetRemote(up)
    \/ list_categories
    \/ list_items
    \/ \E id \in 1..2 : get_item(PyInt(id))
    \/ \E name \in {Some(Tea), Some(Blank)} : create_item(1, name, None, Some(1))
    \/ \E id \in 1..2 : update_item(id, None, Some(2), None)
    \/ \E id \in 1..2 : delete_item(id)

Spec == Init /\ [][Next]_vars

----------------------------------------------------------------------------
\* SpecCats: the cache layer, with the reads and writes of categories

InitCats ==
    /\ InitProcess
    /\ env_ok = TRUE
    /\ remote_up = TRUE
    /\ products_file = AbsentFile
    /\ categories_file \in
           {AbsentFile, CorruptFile, OkFile(DefaultCategories \o <<Category2>>)}
    /\ menu_items = <<Item1>>
    /\ menu_categories = <<RemoteCategory1>>
    /\ site_settings = [whatsapp_phone |-> None]
    /\ ghost = NoGhost

NextCats ==
    \/ Tick(LongTick)
    \/ \E up \in BOOLEAN : SetRemote(up)
    \/ list_categories
    \/ \E name \in {Some(Tea), Some(Blank)} : create_category(name)
    \/ \E id \in 1..2, name \in {None, Some(Tea)} : update_category(id, name)
    \/ \E id \in 1..2 : delete_category(id)

SpecCats == InitCats /\ [][NextCats]_vars

----------------------------------------------------------------------------
\* SpecCreate: creates only, in a process started with no cache file

InitCreate ==
    /\ InitProcess
    /\ env_ok \in BOOLEAN
    /\ remote_up = TRUE
    /\ products_file = AbsentFile
    /\ categories_file = AbsentFile
    /\ menu_items = <<Item1>>
    /\ menu_categories = <<RemoteCategory1>>
    /\ site_settings = [whatsapp_phone |-> None]
    /\ ghost = [NoGhost EXCEPT !.log = TRUE]

NextCreate ==
    \/ \E d \in {ShortTick, LongTick} : Tick(d)
    \/ \E up \in BOOLEAN : SetRemote(up)
    \/ list_categories
    \/ list_items
    \/ \E name \in {Some(Tea)} \cup BlankNames : create_category(name)
    \/ \E name \in {Some(Tea)} \cup BlankNames :
           create_item(1, name, None, Some(1))

SpecCreate == InitCreate /\ [][NextCreate]_vars

----------------------------------------------------------------------------
\* SpecIds: creates, updates and deletes of both entity types, one call at a
\* time, in a process whose files hold distinct ids and that has no remote
\* store configured

InitIds ==
    /\ InitProcess
    /\ env_ok = FALSE
    /\ remote_up = TRUE
    /\ products_file \in {AbsentFile, OkFile(<<Item1>>)}
    /\ categories_file \in {AbsentFile, OkFile(DefaultCategories \o <<Category2>>)}
    /\ menu_items = <<Item1>>
    /\ menu_categories = <<RemoteCategory1>>
    /\ site_settings = [whatsapp_phone |-> None]
    /\ ghost = NoGhost

NextIds ==
    \/ Tick(LongTick)
    \/ create_item(1, Some(Tea), None, Some(1))
    \/ update_item(2, Some(Tea), Some(2), None)
    \/ \E id \in 1..2 : delete_item(id)
    \/ create_category(Some(Tea))
    \/ update_category(2, Some(Tea))
    \/ \E id \in 1..2 : delete_category(id)

SpecIds == InitIds /\ [][NextIds]_vars

----------------------------------------------------------------------------
\* SpecAdmin: the admin routes, requested by sessions logged in or not

Methods == {"GET", "POST"}
Passwords == {"admin", "guess"}
PostedNames == {None, Some(Tea)}
PostedBrands == {<<>>, Tea}
PostedPhones == {Tea, Phone}
PostedDarkModes == {TRUE}

NoSettings ==
    [brand_name |-> None, logo_url |-> None, dark_mode |-> None,
     whatsapp_phone |-> None]

InitAdmin ==
    /\ InitProcess
    /\ env_ok = TRUE
    /\ remote_up = TRUE
    /\ products_file = AbsentFile
    /\ categories_file = AbsentFile
    /\ menu_items = <<Item1>>
    /\ menu_categories = <<RemoteCategory1>>
    /\ site_settings = NoSettings
    /\ ghost = NoGhost

NextAdmin ==
    \/ \E up \in BOOLEAN : SetRemote(up)
    \/ \E method \in Methods, password \in Passwords :
           admin_login(method, password)
    \/ admin_logout
    \/ admin_home
    \/ \E method \in Methods, brand_name \in PostedBrands,
          dark_mode \in PostedDarkModes, whatsapp_phone \in PostedPhones :
           admin_settings(method, brand_name, dark_mode, whatsapp_phone)
    \/ \E method \in Methods, has_file \in BOOLEAN :
           admin_branding(method, has_file)
    \/ \E method \in Methods, name \in PostedNames :
           admin_categories(method, name)
    \/ \E method \in Methods, name \in PostedNames : admin_items(method, name)

SpecAdmin == InitAdmin /\ [][NextAdmin]_vars

----------------------------------------------------------------------------
\* SpecReads: the read operations alone, with the remote store configured or
\* not and answering or not

InitReads ==
    /\ InitProcess
    /\ env_ok \in BOOLEAN
    /\ remote_up \in BOOLEAN
    /\ products_file \in {AbsentFile, CorruptFile, OkFile(<<Item1>>)}
    /\ categories_file \in
           {AbsentFile, CorruptFile, OkFile(DefaultCategories \o <<Category2>>)}
    /\ menu_items = <<Item1, Item2>>
    /\ menu_categories = <<RemoteCategory1>>
    /\ site_settings \in {[whatsapp_phone |-> v] : v \in {None, Some(Phone)}}
    /\ ghost = NoGhost

NextReads ==
    \/ \E d \in {ShortTick, LongTick} : Tick(d)
    \/ \E up \in BOOLEAN : SetRemote(up)
    \/ list_categories
    \/ list_items
    \/ \E category_id \in 1..2 : list_items_for_category(category_id)
    \/ \E item_id \in {PyInt(1), PyStr(1), PyInt(2)} : get_item(item_id)
    \/ call_get_site_setting("whatsapp_phone")

SpecReads == InitReads /\ [][NextReads]_vars

----------------------------------------------------------------------------
\* SpecCart: the session cart and the checkout

InitCart ==
    /\ InitProcess
    /\ env_ok \in BOOLEAN
    /\ remote_up = TRUE
    /\ products_file \in {AbsentFile, OkFile(<<Item1>>)}
    /\ categories_file = AbsentFile
    /\ menu_items \in {<<Item1>>, <<Item2>>}
    /\ menu_categories = <<RemoteCategory1>>
    /\ site_settings \in {[whatsapp_phone |-> v] : v \in {None, Some(Blank), Some(Phone)}}
    /\ ghost = NoGhost

NextCart ==
    \/ Tick(LongTick)
    \/ \E up \in BOOLEAN : SetRemote(up)
    \/ \E id \in 1..2, qty \in -1..2 : cart_add(id, qty)
    \/ \E id \in 1..2 : cart_remove(id)
    \/ cart_checkout

SpecCart == InitCart /\ [][NextCart]_vars

----------------------------------------------------------------------------
\* SpecQty: two change_item_quantity calls that may interleave

Procs == {1, 2}

InitQty ==
    /\ now = Epoch
    /\ _products_cache = None
    /\ _products_cache_time = 0
    /\ _categories_cache = None
    /\ _categories_cache_time = 0
    /\ session = NoSession
    /\ last = Idle
    /\ cq = [p \in Procs |-> NoCall]
    /\ cr = <<>>
    /\ env_ok \in BOOLEAN
    /\ remote_up = TRUE
    /\ products_file = AbsentFile
    /\ categories_file = AbsentFile
    /\ menu_items \in {<<[Item1 EXCEPT !.quantity = q], Item2>> : q \in 0..MaxStock}
    /\ menu_categories = <<RemoteCategory1>>
    /\ site_settings = [whatsapp_phone |-> None]
    /\ ghost = NoGhost

NextQty ==
    \/ \E up \in BOOLEAN : SetRemote(up)
    \/ \E p \in Procs, id \in 1..3, delta \in {0 - (MaxStock + 1), -1, 1} :
           cq_call(p, id, delta)
    \/ \E p \in Procs : cq_select(p)
    \/ \E p \in Procs : cq_update(p)

SpecQty == InitQty /\ [][NextQty]_vars

----------------------------------------------------------------------------
\* SpecStock: the quantity of an item, written by create_item, update_item
\* and change_item_quantity and read back through the cache

InitStock ==
    /\ now = Epoch
    /\ _products_cache = None
    /\ _products_cache_time = 0
    /\ _categories_cache = None
    /\ _categories_cache_time = 0
    /\ session = NoSession
    /\ last = Idle
    /\ cq = [p \in {1} |-> NoCall]
    /\ cr = <<>>
    /\ env_ok = TRUE
    /\ remote_up = TRUE
    /\ products_file \in {AbsentFile, OkFile(<<Item1>>)}
    /\ categories_file = AbsentFile
    /\ menu_items = <<Item1>>
    /\ menu_categories = <<RemoteCategory1>>
    /\ site_settings = [whatsapp_phone |-> None]
    /\ ghost = NoGhost

NextStock ==
    \/ get_item(PyInt(1))
    \/ \E quantity \in {Some(-1), Some(2)} :
           create_item(1, Some(Tea), None, quantity)
    \/ \E quantity \in {None, Some(-1), Some(0)} :
           update_item(1, Some(Tea), Some(2), quantity)
    \/ \E delta \in {-1, 1} : cq_call(1, 1, delta)
    \/ cq_select(1)
    \/ cq_update(1)

SpecStock == InitStock /\ [][NextStock]_vars

----------------------------------------------------------------------------
\* SpecRace: two create calls that may interleave

InitRace ==
    /\ now = Epoch
    /\ _products_cache = None
    /\ _products_cache_time = 0
    /\ _categories_cache = None
    /\ _categories_cache_time = 0
    /\ session = NoSession
    /\ last = Idle
    /\ cq = <<>>
    /\ cr = [p \in Procs |-> NoCreate]
    /\ env_ok = TRUE
    /\ remote_up = TRUE
    /\ products_file \in {AbsentFile, OkFile(<<Item1>>)}
    /\ categories_file \in {AbsentFile, OkFile(DefaultCategories)}
    /\ menu_items = <<>>
    /\ menu_categories = <<RemoteCategory1>>
    /\ site_settings = [whatsapp_phone |-> None]
    /\ ghost = [NoGhost EXCEPT !.log = TRUE]

NextRace ==
    \/ Tick(LongTick)
    \/ \E up \in BOOLEAN : SetRemote(up)
    \/ \E p \in Procs, kind \in {"item", "category"},
          name \in {Some(Tea), Some(Blank)} : cr_load(p, kind, name)
    \/ \E p \in Procs : cr_store(p)

SpecRace == InitRace /\ [][NextRace]_vars

----------------------------------------------------------------------------
\* Properties

ItemWrites == {"create_item", "update_item", "delete_item"}
CategoryWrites == {"create_category", "update_category", "delete_category"}
Creates == {"create_item", "create_category"}

\* The sequence a cache file holds; a missing or unreadable file holds none
\* and is taken as empty.
FileRows(file) == IF file.kind = "ok" THEN file.data ELSE <<>>

\* C1: after a completed create, update or delete of an entity type, the
\* cache file of that type holds exactly the in-memory snapshot of that type.
C1_FileEqualsSnapshot ==
    /\ (last.op \in ItemWrites /\ ~(last.op \in Creates /\ last.raised))
           => FileRows(products_file) = _products_cache[1]
    /\ (last.op \in CategoryWrites /\ ~(last.op \in Creates /\ last.raised))
           => FileRows(categories_file) = _categories_cache[1]

\* C2: a read never returns an entry whose id was deleted and has not been
\* created again since.
C2_DeletedStaysDeleted ==
    /\ last.op \in {"list_items", "get_item"}
           => Ids(last.result) \cap ghost.deleted_items = {}
    /\ last.op = "list_categories"
           => Ids(last.result) \cap ghost.deleted_categories = {}

C4_StaleReadFetchesOnce ==
    (last.op = "list_items" /\ last.pre.aged /\ last.pre.reachable)
        => last.calls = 1

\* C5: a list read sends no query to the remote store when a non-empty
\* snapshot of that entity type is in memory or on disk.
C5_NoRemoteCallWithSnapshot ==
    (/\ last.op \in {"list_items", "list_categories"}
     /\ last.pre.mem_rows \/ last.pre.file_rows)
        => last.calls = 0

\* C6: the first read of an entity type with no cache file and the remote
\* store reachable returns the rows of the remote store, and the default is
\* returned on a first read with no cache file only when the remote store is
\* not reachable.
C6_FirstReadFromRemote ==
    /\ (last.op = "list_items" /\ ~last.pre.loaded /\ last.pre.file = "absent"
            /\ last.pre.reachable)
           => last.result = SelectItems
    /\ (last.op = "list_categories" /\ ~last.pre.loaded
            /\ last.pre.file = "absent" /\ last.pre.reachable)
           => last.result = SelectCategories

\* C7: with the remote store not reachable and no cache file, list_categories
\* returns the single default category and list_items returns the empty
\* sequence, and neither raises.
C7_Fallback ==
    /\ (last.op = "list_categories" /\ ~last.pre.reachable
            /\ last.pre.file = "absent")
           => /\ last.result =
                     << [id |-> 1, name |-> <<"A", "l", "l">>,
                         slug |-> <<"a", "l", "l">>] >>
              /\ ~last.raised
    /\ (last.op = "list_items" /\ ~last.pre.reachable
            /\ last.pre.file = "absent")
           => /\ last.result = <<>>
              /\ ~last.raised

\* list_items falls back to the empty sequence although rows fetched earlier
\* were in memory.
C7_Witness ==
    /\ last.op = "list_items"
    /\ ~last.pre.reachable
    /\ last.pre.file = "absent"
    /\ last.pre.mem_rows
    /\ last.result = <<>>

\* C8 as stated: a checkout of a non-empty cart ends with the cart empty.
C8_CheckoutClearsCart ==
    (last.op = "cart_checkout" /\ DOMAIN last.pre.cart # {})
        => DOMAIN session.cart = {}

\* C8 as amended: a checkout of a non-empty cart ends with the cart empty
\* when a WhatsApp number is read from the site settings, whatever the item
\* lookups return, and with the cart as it was otherwise.
C8_CheckoutClearsCartWhenConfigured ==
    (last.op = "cart_checkout" /\ DOMAIN last.pre.cart # {})
        => IF last.pre.whatsapp_phone # <<>>
           THEN DOMAIN session.cart = {}
           ELSE session.cart = last.pre.cart

\* A checkout with a number configured in which an item lookup failed.
C8_Witness ==
    /\ last.op = "cart_checkout"
    /\ Cardinality(DOMAIN last.pre.cart) = 2
    /\ last.pre.whatsapp_phone # <<>>
    /\ Len(last.result) = 1
    /\ DOMAIN session.cart = {}

\* C9: after a checkout that builds its link with the remote store
\* reachable, every remote item with a cart entry of quantity q has the
\* quantity max(0, previous - q).
C9_CheckoutDecrements ==
    (last.op = "cart_checkout" /\ last.pre.whatsapp_phone # <<>>
         /\ last.pre.reachable)
        => \A i \in 1..Len(menu_items) :
               menu_items[i].id \in DOMAIN last.pre.cart
                   => menu_items[i].quantity =
                          Max0(last.pre.stock[i].quantity
                                   - last.pre.cart[menu_items[i].id])

\* C10: no remote quantity is negative, and every value written by
\* change_item_quantity is max(0, current + delta) for the quantity it read,
\* also when two calls interleave.
C10_QuantityFloor ==
    /\ \A i \in 1..Len(menu_items) : menu_items[i].quantity >= 0
    /\ \A p \in DOMAIN cq :
           cq[p].wrote # None
               => cq[p].wrote[1] =
                      (IF cq[p].current + cq[p].delta > 0
                       THEN cq[p].current + cq[p].delta ELSE 0)

\* Two calls read the same positive quantity of one item before either
\* wrote, and one of them wrote 0 for a delta below -current.
C10_Witness ==
    /\ cq # <<>>
    /\ cq[1].pc = "idle" /\ cq[2].pc = "idle"
    /\ cq[1].wrote = Some(0) /\ cq[2].wrote # None
    /\ cq[1].item_id = cq[2].item_id
    /\ cq[1].current > 0 /\ cq[2].current = cq[1].current
    /\ cq[1].current + cq[1].delta < 0

\* C11: a checkout of a cart whose ids are all in the items snapshot builds
\* one line per cart entry, with the name of the snapshot's item, the cart
\* quantity and price * quantity, and a subtotal that is the sum of the line
\* totals, whether or not the remote store is reachable.
C11_CheckoutLines ==
    (/\ last.op = "cart_checkout"
     /\ DOMAIN last.pre.cart # {}
     /\ DOMAIN last.pre.cart \subseteq Ids(last.pre.products))
        => /\ Len(last.result) = Cardinality(DOMAIN last.pre.cart)
           /\ \A k \in DOMAIN last.pre.cart :
                  LET itm == FindItem(last.pre.products, PyInt(k))[1]
                  IN \E i \in 1..Len(last.result) :
                         last.result[i] =
                             [name |-> itm.name, qty |-> last.pre.cart[k],
                              line_total |-> PriceOf(itm) * last.pre.cart[k]]
           /\ last.arg = Sum(last.result)

\* C12: two cart_add calls in a row for one item id, with quantities a >= 1
\* and b >= 1, starting with no entry for it, leave the entry a + b; after a
\* cart_remove the item id has no entry and the other entries are as they
\* were, so a cart that held only that item is empty.
C12_AddAddRemove ==
    /\ (/\ last.op = "cart_add"
        /\ last.pre.before.op = "cart_add"
        /\ last.pre.before.arg = last.arg
        /\ last.arg \notin DOMAIN last.pre.before.cart
        /\ last.pre.before.qty >= 1
        /\ last.pre.qty >= 1)
           => /\ last.arg \in DOMAIN session.cart
              /\ session.cart[last.arg] = last.pre.before.qty + last.pre.qty
    /\ last.op = "cart_remove"
           => /\ last.arg \notin DOMAIN session.cart
              /\ DOMAIN session.cart = DOMAIN last.pre.cart \ {last.arg}
              /\ \A k \in DOMAIN session.cart : session.cart[k] = last.pre.cart[k]
              /\ DOMAIN last.pre.cart = {last.arg} => session.cart = EmptyCart

\* The item was added with quantity 2 to a cart holding 1 of it and nothing
\* else, then removed, and the cart is empty.
C12_Witness ==
    /\ last.op = "cart_remove"
    /\ last.pre.before.op = "cart_add"
    /\ last.pre.before.arg = last.arg
    /\ last.pre.before.qty = 2
    /\ last.pre.before.cart = (last.arg :> 1)
    /\ last.pre.cart = (last.arg :> 3)
    /\ session.cart = EmptyCart

\* C13: a list_items call made no more than CACHE_DURATION after another one,
\* with no create, update or delete between the two, returns the sequence
\* the earlier call returned.
C13_RepeatedListIdentical ==
    [][(/\ list_items
        /\ ghost.listed # None
        /\ now - ghost.listed[1].at <= CACHE_DURATION)
           => last'.result = ghost.listed[1].result]_vars

\* The rows of a sequence with the given id.
RowsWithId(rows, id) == SelectSeq(rows, LAMBDA r : r.id = id)

\* C14: with the remote store not reachable, a create, update or delete of a
\* category or an item with a valid name does not raise, the snapshot holds
\* the change when the call returns, and a list read made next returns it.
C14_WritesSurviveOutage ==
    [][~Reachable =>
          /\ \A id \in 1..MaxId :
                 delete_category(id)
                     => /\ ~last'.raised
                        /\ id \notin Ids(_categories_cache'[1])
                        /\ id \notin Ids(ListedCategories')
          /\ \A id \in 1..MaxId :
                 delete_item(id)
                     => /\ ~last'.raised
                        /\ id \notin Ids(_products_cache'[1])
                        /\ id \notin Ids(ListedItems')
          /\ create_category(Some(Tea))
                 => /\ ~last'.raised
                    /\ \E i \in 1..Len(_categories_cache'[1]) :
                           /\ _categories_cache'[1][i].id = last'.arg
                           /\ _categories_cache'[1][i].name = Tea
                    /\ RowsWithId(ListedCategories', last'.arg)
                           = RowsWithId(_categories_cache'[1], last'.arg)
          /\ create_item(1, Some(Tea), None, Some(1))
                 => /\ ~last'.raised
                    /\ \E i \in 1..Len(_products_cache'[1]) :
                           /\ _products_cache'[1][i].id = last'.arg
                           /\ _products_cache'[1][i].name = Tea
                    /\ RowsWithId(ListedItems', last'.arg)
                           = RowsWithId(_products_cache'[1], last'.arg)
          /\ \A id \in 1..MaxId :
                 (/\ update_category(id, Some(Tea))
                  /\ id \in Ids(LoadCategories.cache[1]))
                     => /\ ~last'.raised
                        /\ RowsWithId(_categories_cache'[1], id)[1].name = Tea
                        /\ RowsWithId(ListedCategories', id)
                               = RowsWithId(_categories_cache'[1], id)
      ]_vars

ReadOps ==
    {"list_categories", "list_items", "list_items_for_category", "get_item",
     "get_site_setting"}

\* C15: no read operation raises, and with the remote store not reachable
\* (not configured, or not answering) each returns its fallback: the snapshot
\* or the default category for list_categories, the snapshot (empty when
\* nothing is cached) for list_items, the snapshot's items of the category
\* for list_items_for_category, the snapshot's item or None for get_item, and
\* None for get_site_setting.
C15_ReadsNeverRaise ==
    last.op \in ReadOps
        => /\ ~last.raised
           /\ ~last.pre.reachable
                  => CASE last.op = "list_categories" ->
                              last.result = IF _categories_cache[1] # <<>>
                                            THEN _categories_cache[1]
                                            ELSE DefaultCategories
                       [] last.op = "list_items" ->
                              last.result = _products_cache[1]
                       [] last.op = "list_items_for_category" ->
                              last.result =
                                  SelectSeq(_products_cache[1],
                                            LAMBDA r : r.category_id = last.arg)
                       [] last.op = "get_item" ->
                              \/ last.result = None
                              \/ /\ last.calls = 0
                                 /\ last.result = Some(RowsWithId(_products_cache[1],
                                                                  last.arg)[1])
                       [] last.op = "get_site_setting" ->
                              last.result = None

\* A read by category reached the remote fallback with the environment not
\* configured and an unreadable items file, and returned the empty list.
C15_Witness ==
    /\ last.op = "list_items_for_category"
    /\ ~env_ok
    /\ last.pre.file = "corrupt"
    /\ last.calls = 0
    /\ last.result = <<>>
    /\ ~last.raised

\* C16: a create_category or create_item call with a missing, empty or
\* blank name raises and leaves the snapshots, the cache files and the remote
\* tables as they were.
C16_BlankNameRejected ==
    [][\A name \in BlankNames :
           /\ create_category(name)
                  => /\ last'.raised
                     /\ UNCHANGED <<cacheVars, fileVars, remoteVars>>
           /\ create_item(1, name, None, Some(1))
                  => /\ last'.raised
                     /\ UNCHANGED <<cacheVars, fileVars, remoteVars>>
      ]_vars

\* A create_item call was rejected with an item in the snapshot, in the items
\* file and in the remote table.
C16_Witness ==
    /\ last.op = "create_item"
    /\ last.raised
    /\ _products_cache # None
    /\ Len(_products_cache[1]) = 1
    /\ products_file = OkFile(_products_cache[1])
    /\ Len(menu_items) = 2

\* C17: no lock orders two creates of one process.  The id a create assigns
\* is the largest id of the snapshot it loaded plus one, whatever another
\* create did between its load and its write, so that two creates of one
\* entity type that loaded the same ids assign the same id.
C17_IdFromOwnRead ==
    /\ \A p \in DOMAIN cr :
           /\ cr[p].pc = "write" => cr[p].new_id = Max(cr[p].seen \cup {0}) + 1
           /\ cr[p].assigned # None
                  => cr[p].assigned[1] = Max(cr[p].seen \cup {0}) + 1
    /\ \A p, q \in DOMAIN cr :
           (cr[p].pc = "write" /\ cr[q].assigned # None
                /\ cr[p].kind = cr[q].kind /\ cr[p].seen = cr[q].seen)
               => cr[p].new_id = cr[q].assigned[1]

\* Two create_item calls were given the same id, and the snapshot and the
\* items file hold only the entry of the one that wrote last.
C17_Witness ==
    /\ cr # <<>>
    /\ cr[1].kind = "item" /\ cr[2].kind = "item"
    /\ cr[1].assigned # None
    /\ cr[1].assigned = cr[2].assigned
    /\ ghost.created_items = <<1, 1>>
    /\ Len(_products_cache[1]) = 1
    /\ products_file = OkFile(_products_cache[1])

\* C18: every category and every item of the snapshots has a non-empty name,
\* after any sequence of creates, updates and deletes.
C18_NamesNonEmpty ==
    /\ _products_cache # None
           => \A i \in 1..Len(_products_cache[1]) :
                  _products_cache[1][i].name # <<>>
    /\ _categories_cache # None
           => \A i \in 1..Len(_categories_cache[1]) :
                  _categories_cache[1][i].name # <<>>

\* C19: every item of the items snapshot has a quantity of at least 0, for
\* any quantity given to create_item or update_item.
C19_SnapshotQuantityNonNegative ==
    _products_cache # None
        => \A i \in 1..Len(_products_cache[1]) :
               _products_cache[1][i].quantity >= 0

\* C20: when change_item_quantity(id, delta) writes with the item in the
\* items snapshot, the quantity it read is the snapshot's, and a get_item(id)
\* made next returns the item with the quantity max(0, old + delta), old being
\* the snapshot's quantity before the call.
C20_QuantityThroughCache ==
    [][\A p \in DOMAIN cq :
           LET item_id == PyInt(cq[p].item_id)
               cached == FindItem(LoadProducts.cache[1], item_id)
           IN (cq_update(p) /\ remote_up /\ cached # None)
                  => /\ cq[p].current = cached[1].quantity
                     /\ GetItem(item_id)'.item # None
                     /\ GetItem(item_id)'.item[1].quantity
                            = Max0(cached[1].quantity + cq[p].delta)
      ]_vars

\* C21: a create, update or delete of an item leaves the categories snapshot
\* (once loaded) and the categories file as they were, and a create, update
\* or delete of a category leaves the items snapshot (once loaded) and the
\* items file as they were.
C21_EntityTypesIndependent ==
    [][/\ (last'.op \in ItemWrites /\ ~last'.raised)
              => /\ categories_file' = categories_file
                 /\ _categories_cache # None
                        => _categories_cache' = _categories_cache
       /\ (last'.op \in CategoryWrites /\ ~last'.raised)
              => /\ products_file' = products_file
                 /\ _products_cache # None
                        => _products_cache' = _products_cache
      ]_vars

\* C22: every entry of the session cart is an integer of at least 1.
C22_CartQuantitiesPositive ==
    \A k \in DOMAIN session.cart :
        session.cart[k] \in Int /\ session.cart[k] >= 1

\* A cart_add with a negative quantity made the entry 1, and another with
\* quantity 0 made it 2.
C22_Witness ==
    /\ last.op = "cart_add"
    /\ last.pre.qty = 0
    /\ last.pre.before.op = "cart_add"
    /\ last.pre.before.arg = last.arg
    /\ last.pre.before.qty < 0
    /\ last.arg \notin DOMAIN last.pre.before.cart
    /\ session.cart[last.arg] = 2

\* No two entries of the list have the same id.
Distinct(rows) ==
    \A i, j \in 1..Len(rows) : i # j => rows[i].id # rows[j].id

\* C23: with one call at a time, the ids of the items snapshot are pairwise
\* distinct and so are the ids of the categories snapshot.
C23_IdsDistinct ==
    /\ _products_cache # None => Distinct(_products_cache[1])
    /\ _categories_cache # None => Distinct(_categories_cache[1])

\* Each snapshot holds the ids 2 and 3 after creates and the delete of id 1,
\* the last call being a create of an item.
C23_Witness ==
    /\ last.op = "create_item"
    /\ _products_cache # None
    /\ Ids(_products_cache[1]) = {2, 3}
    /\ 1 \in ghost.deleted_items
    /\ _categories_cache # None
    /\ Ids(_categories_cache[1]) = {2, 3}
    /\ 1 \in ghost.deleted_categories

\* The request was answered by a redirect to the login page and left the
\* snapshots, the files, the remote tables and the session as they were.
Refused ==
    /\ UNCHANGED <<cacheVars, fileVars, remoteVars, session>>
    /\ last'.result = <<"admin_login">>

\* C24: a request to /admin, /admin/settings, /admin/branding,
\* /admin/categories or /admin/items made in a session that is not logged in
\* changes no category, item or site setting and redirects to the login page.
C24_AdminRoutesNeedLogin ==
    [][session.admin # TRUE =>
          /\ admin_home => Refused
          /\ \A method \in Methods :
                /\ \A brand_name \in PostedBrands, dark_mode \in PostedDarkModes,
                      whatsapp_phone \in PostedPhones :
                       admin_settings(method, brand_name, dark_mode,
                                      whatsapp_phone) => Refused
                /\ \A has_file \in BOOLEAN :
                       admin_branding(method, has_file) => Refused
                /\ \A name \in PostedNames :
                       /\ admin_categories(method, name) => Refused
                       /\ admin_items(method, name) => Refused
      ]_vars

\* After a logged-in session saved settings and an item and logged out, a
\* request to /admin/items was redirected to the login page.
C24_Witness ==
    /\ last.op = "admin_items"
    /\ last.result = <<"admin_login">>
    /\ session.admin = FALSE
    /\ site_settings.brand_name # None
    /\ products_file.kind = "ok"

====
